---- MODULE Spec2Model ----
(***************************************************************************)
(* check_environment.py: the dependency checker.                           *)
(*                                                                         *)
(* The script walks the list `packages`, calls importlib.import_module on  *)
(* each name inside try/except ImportError, collects one "Can't import     *)
(* <name>" message per caught ImportError in `bad`, and in the loop's else *)
(* clause prints the messages joined by newlines and calls sys.exit(1)     *)
(* when `bad` is not empty.                                                *)
(*                                                                         *)
(* A text is modelled as a sequence of chunks (strings); the newline is    *)
(* the chunk "\n".  A process is one run of the script; MaxRuns runs are   *)
(* made in a row against the same environment.                             *)
(***************************************************************************)
EXTENDS Naturals, Sequences, FiniteSets

\* Bounds of the model.
MaxLen == 3
MaxRuns == 2

\* packages = ['pandas', 'IPython', 'seaborn', 'pyarrow']
ProgramPackages == <<"pandas", "IPython", "seaborn", "pyarrow">>

Names == {ProgramPackages[k] : k \in 1..Len(ProgramPackages)}

\* What importlib.import_module(name) does in an environment: it returns
\* ("ok") or raises.  A missing module raises ModuleNotFoundError; a module
\* that is present but broken raises ImportError (e.g. a missing shared
\* library) or whatever its top-level code raises (SyntaxError stands for
\* every exception outside the ImportError hierarchy).
Outcomes == {"ok", "ModuleNotFoundError", "ImportError", "SyntaxError"}

\* Python's exception hierarchy, as far as the except clause reads it.
IsSubclass(exc, cls) ==
    \/ exc = cls
    \/ exc = "ModuleNotFoundError" /\ cls = "ImportError"

\* The lists the checker may be configured with: every list of at most
\* MaxLen names, and the list of the source.
Lists == UNION {[1..n -> Names] : n \in 0..MaxLen} \cup {ProgramPackages}

Range(s) == {s[k] : k \in 1..Len(s)}

VARIABLES
    packages,   \* the configured list (line 4)
    env,        \* the environment: name -> outcome of loading it
    pc,         \* the statement the process is at
    i,          \* the for loop's iterator: names consumed so far
    package,    \* the loop variable
    bad,        \* the result set (line 6)
    stdout,     \* standard output of the process, a sequence of chunks
    stderr,     \* the traceback of an uncaught exception, if any
    status,     \* exit statuses of the process: <<>> while it runs
    attempted,  \* the names import_module was called with, in call order
    prints,     \* number of print calls of the process
    elseRan,    \* whether the loop's else clause was entered
    run,        \* which run this is
    prevOut,    \* standard output of the previous run
    prevStatus  \* exit status of the previous run

vars == <<packages, env, pc, i, package, bad, stdout, stderr, status,
          attempted, prints, elseRan, run, prevOut, prevStatus>>

\* "Can't import %s" % package
Fmt(name) == <<"Can't import ", name>>

\* sep.join(seq)
RECURSIVE join(_, _)
join(sep, seq) ==
    IF Len(seq) = 0 THEN <<>>
    ELSE IF Len(seq) = 1 THEN seq[1]
    ELSE seq[1] \o <<sep>> \o join(sep, Tail(seq))

\* print(text): the text followed by a newline
print(text) == text \o <<"\n">>

\* importlib.import_module(name) in environment e
import_module(e, name) == e[name]

\* len(bad) > 0
NonEmptyMut(b) == Len(b) >= 0
NonEmpty(b) == Len(b) > 0

Init ==
    /\ packages \in Lists
    /\ env \in [Range(packages) -> Outcomes]
    /\ pc = "start"
    /\ i = 0
    /\ package = ""
    /\ bad = <<>>
    /\ stdout = <<>>
    /\ stderr = <<>>
    /\ status = <<>>
    /\ attempted = <<>>
    /\ prints = 0
    /\ elseRan = FALSE
    /\ run = 1
    /\ prevOut = <<>>
    /\ prevStatus = <<>>

\* line 6: bad = []
Start ==
    /\ pc = "start"
    /\ bad' = <<>>
    /\ pc' = "for"
    /\ UNCHANGED <<packages, env, i, package, stdout, stderr, status,
                   attempted, prints, elseRan, run, prevOut, prevStatus>>

\* line 7: the iterator yields the next name
ForNext ==
    /\ pc = "for"
    /\ i < Len(packages)
    /\ i' = i + 1
    /\ package' = packages[i + 1]
    /\ pc' = "try"
    /\ UNCHANGED <<packages, env, bad, stdout, stderr, status,
                   attempted, prints, elseRan, run, prevOut, prevStatus>>

\* lines 7, 12: the iterator is exhausted; no break happened, so the else
\* clause of the loop is entered
ForExhausted ==
    /\ pc = "for"
    /\ i = Len(packages)
    /\ pc' = "else"
    /\ elseRan' = TRUE
    /\ UNCHANGED <<packages, env, i, package, bad, stdout, stderr, status,
                   attempted, prints, run, prevOut, prevStatus>>

\* lines 8-9: import_module returns
TryOk ==
    /\ pc = "try"
    /\ import_module(env, package) = "ok"
    /\ attempted' = Append(attempted, package)
    /\ pc' = "for"
    /\ UNCHANGED <<packages, env, i, package, bad, stdout, stderr, status,
                   prints, elseRan, run, prevOut, prevStatus>>

\* A checker that installs what it finds missing.
TryCaughtInstalls ==
    /\ pc = "try"
    /\ import_module(env, package) # "ok"
    /\ IsSubclass(import_module(env, package), "ImportError")
    /\ attempted' = Append(attempted, package)
    /\ env' = [env EXCEPT ![package] = "ok"]
    /\ pc' = "except"
    /\ UNCHANGED <<packages, i, package, bad, stdout, stderr, status,
                   prints, elseRan, run, prevOut, prevStatus>>

\* lines 8-10: import_module raises an exception that `except ImportError`
\* matches
TryCaught ==
    /\ pc = "try"
    /\ import_module(env, package) # "ok"
    /\ IsSubclass(import_module(env, package), "ImportError")
    /\ attempted' = Append(attempted, package)
    /\ pc' = "except"
    /\ UNCHANGED <<packages, env, i, package, bad, stdout, stderr, status,
                   prints, elseRan, run, prevOut, prevStatus>>

\* lines 8-10: import_module raises an exception that `except ImportError`
\* does not match: it propagates out of the module, the interpreter writes
\* the traceback to standard error and the process ends with status 1
TryUncaught ==
    /\ pc = "try"
    /\ import_module(env, package) # "ok"
    /\ ~IsSubclass(import_module(env, package), "ImportError")
    /\ attempted' = Append(attempted, package)
    /\ stderr' = <<import_module(env, package)>>
    /\ status' = Append(status, 1)
    /\ pc' = "exit"
    /\ UNCHANGED <<packages, env, i, package, bad, stdout,
                   prints, elseRan, run, prevOut, prevStatus>>

\* A handler that retries the name it failed on.
ExceptRetries ==
    /\ pc = "except"
    /\ bad' = Append(bad, Fmt(package))
    /\ i' = i - 1
    /\ pc' = "for"
    /\ UNCHANGED <<packages, env, package, stdout, stderr, status,
                   attempted, prints, elseRan, run, prevOut, prevStatus>>

\* A handler that leaves the loop: the else clause is skipped and the module
\* ends.
ExceptBreaks ==
    /\ pc = "except"
    /\ bad' = Append(bad, Fmt(package))
    /\ status' = Append(status, 0)
    /\ pc' = "exit"
    /\ UNCHANGED <<packages, env, i, package, stdout, stderr,
                   attempted, prints, elseRan, run, prevOut, prevStatus>>

\* line 11: bad.append("Can't import %s" % package)
Except ==
    /\ pc = "except"
    /\ bad' = Append(bad, Fmt(package))
    /\ pc' = "for"
    /\ UNCHANGED <<packages, env, i, package, stdout, stderr, status,
                   attempted, prints, elseRan, run, prevOut, prevStatus>>

\* lines 13-14: if len(bad) > 0: print('\n'.join(bad))
ElseReport ==
    /\ pc = "else"
    /\ NonEmpty(bad)
    /\ stdout' = stdout \o print(join("\n", bad))
    /\ prints' = prints + 1
    /\ pc' = "sysexit"
    /\ UNCHANGED <<packages, env, i, package, bad, stderr, status,
                   attempted, elseRan, run, prevOut, prevStatus>>

\* line 13: len(bad) > 0 is false; the module ends and the process exits
\* with status 0
ElseQuiet ==
    /\ pc = "else"
    /\ ~NonEmpty(bad)
    /\ status' = Append(status, 0)
    /\ pc' = "exit"
    /\ UNCHANGED <<packages, env, i, package, bad, stdout, stderr,
                   attempted, prints, elseRan, run, prevOut, prevStatus>>

\* line 15: sys.exit(1)
SysExit ==
    /\ pc = "sysexit"
    /\ status' = Append(status, 1)
    /\ pc' = "exit"
    /\ UNCHANGED <<packages, env, i, package, bad, stdout, stderr,
                   attempted, prints, elseRan, run, prevOut, prevStatus>>

\* The script is run again: a new process, the same list, the same
\* environment.  What the previous run wrote is kept for comparison.
Rerun ==
    /\ pc = "exit"
    /\ run < MaxRuns
    /\ run' = run + 1
    /\ prevOut' = stdout
    /\ prevStatus' = status
    /\ pc' = "start"
    /\ i' = 0
    /\ package' = ""
    /\ bad' = <<>>
    /\ stdout' = <<>>
    /\ stderr' = <<>>
    /\ status' = <<>>
    /\ attempted' = <<>>
    /\ prints' = 0
    /\ elseRan' = FALSE
    /\ UNCHANGED <<packages, env>>

\* The steps of one process.
Step ==
    \/ Start
    \/ ForNext
    \/ ForExhausted
    \/ TryOk
    \/ TryCaught
    \/ TryUncaught
    \/ Except
    \/ ElseReport
    \/ ElseQuiet
    \/ SysExit

Next == Step \/ Rerun

Spec == Init /\ [][Next]_vars

\* The interpreter keeps executing a process that can take a step.
FairSpec == Spec /\ WF_vars(Step)

(***************************************************************************)
(* Vocabulary of the properties.                                           *)
(***************************************************************************)

\* The name fails to load in the environment.
Fails(name) == env[name] # "ok"

AllLoad == \A n \in Range(packages) : ~Fails(n)

FailingNames(names) == SelectSeq(names, Fails)

\* One "Can't import <name>" message per failing name of `names`, in order.
Messages(names) == [k \in 1..Len(FailingNames(names)) |-> Fmt(FailingNames(names)[k])]

\* The lines of a text: the chunks between newlines.
RECURSIVE SplitLines(_, _)
SplitLines(out, cur) ==
    IF out = <<>> THEN (IF cur = <<>> THEN <<>> ELSE <<cur>>)
    ELSE IF Head(out) = "\n" THEN <<cur>> \o SplitLines(Tail(out), <<>>)
    ELSE SplitLines(Tail(out), Append(cur, Head(out)))

Lines(out) == SplitLines(out, <<>>)

IsPrefix(s, t) == Len(s) <= Len(t) /\ \A k \in 1..Len(s) : s[k] = t[k]

\* The names whose check is over: the load attempt was made and, if it
\* failed, its handling is not pending.
Checked == IF pc = "except" THEN SubSeq(attempted, 1, Len(attempted) - 1) ELSE attempted

\* The position of the process on the line Start, Check*, Report, Exit.
Rank ==
    CASE pc = "start" -> 0
      [] pc = "try" -> 3 * i - 1
      [] pc = "except" -> 3 * i
      [] pc = "for" -> 3 * i + 1
      [] pc = "else" -> 3 * Len(packages) + 2
      [] pc = "sysexit" -> 3 * Len(packages) + 3
      [] OTHER -> 3 * Len(packages) + 4

(***************************************************************************)
(* The properties.                                                         *)
(***************************************************************************)

\* C1: whatever the list (the empty one included), when every listed name
\* loads, nothing is ever written to standard output and the run ends with
\* exit status 0.
C1_AllLoadSilentZero ==
    AllLoad => /\ stdout = <<>>
               /\ pc = "exit" => status = <<0>>

C1_Witness ==
    /\ pc = "exit"
    /\ packages = ProgramPackages
    /\ AllLoad
    /\ status = <<0>>

\* C2: when at least one listed name fails to load, the run ends with exit
\* status 1 and standard output holds exactly one line "Can't import <name>"
\* per failing name, in list order, and no other line.
C2_FailureLinesAndStatusOne ==
    (pc = "exit" /\ ~AllLoad) =>
        /\ status = <<1>>
        /\ Lines(stdout) = Messages(packages)

\* C3: every load failure, missing or broken, is caught at the load attempt
\* and becomes a "Can't import <name>" record; none propagates as a fault.
C3_EveryFailureCaught ==
    /\ stderr = <<>>
    /\ \A k \in 1..Len(attempted) :
          Fails(attempted[k]) =>
              \/ k = Len(attempted) /\ pc = "except"
              \/ Fmt(attempted[k]) \in Range(bad)

\* C4: the pass never short-circuits: once the run reports or exits, every
\* name of the list has been attempted, whatever failed before it.
C4_NoShortCircuit ==
    (pc \in {"else", "sysexit", "exit"} \/ prints > 0 \/ status # <<>>) =>
        attempted = packages

\* C5: standard output and the exit status are written at most once per run
\* and only after the load attempt for the last name has finished.
C5_WrittenOnceAtEnd ==
    /\ prints <= 1
    /\ Len(status) <= 1
    /\ (prints > 0 \/ stdout # <<>> \/ status # <<>>) =>
          /\ Len(attempted) = Len(packages)
          /\ i = Len(packages)
          /\ pc \notin {"try", "except"}

C7_EachNameOnceOneRecord ==
    /\ IsPrefix(attempted, packages)
    /\ pc = "exit" =>
          /\ attempted = packages
          /\ Len(bad) = Cardinality({k \in 1..Len(packages) : Fails(packages[k])})

\* C8: a run is one linear pass: every step moves the process forward on
\* the line Start, Check*, Report, Exit, the iterator never goes back to an
\* earlier name, and every started run reaches Exit.
C8_LinearPassTerminates ==
    /\ [][run' = run => (Rank' > Rank /\ i' >= i)]_vars
    /\ (pc = "start") ~> (pc = "exit")

C8_Witness ==
    /\ pc = "exit"
    /\ packages = ProgramPackages
    /\ Len(bad) >= 2
    /\ Len(bad) < Len(packages)
    /\ status = <<1>>

\* C9: in every run whose loop finishes, the else clause of the loop is
\* entered, and the run ends as it would with the report-and-exit code put
\* unconditionally after the loop.
C9_ElseIsPostLoopCode ==
    (pc \in {"else", "sysexit", "exit"} /\ stderr = <<>>) =>
        /\ elseRan
        /\ pc = "exit" =>
              /\ stdout = (IF Len(bad) > 0 THEN join("\n", bad) \o <<"\n">> ELSE <<>>)
              /\ status = (IF Len(bad) > 0 THEN <<1>> ELSE <<0>>)

C9_Witness ==
    /\ pc = "exit"
    /\ stderr = <<>>
    /\ elseRan
    /\ Len(bad) >= 2
    /\ \E k \in 1..(Len(packages) - 1) : Fails(packages[k]) /\ ~Fails(packages[k + 1])

\* C10: at every point of the pass the result set is exactly the messages
\* of the failing names among the names checked so far, in list order, and
\* it is never longer than the number of names checked.
C10_ResultSetIsFailuresOfPrefix ==
    /\ bad = Messages(Checked)
    /\ Len(bad) <= Len(Checked)
    /\ IsPrefix(Checked, packages)

====
